---- MODULE Spec2Model ----
(***************************************************************************)
(* seldir2: a three-pane directory selector (src/src/main.rs).             *)
(*                                                                         *)
(* The model covers the navigation state machine: StatefulList, the        *)
(* directory lister read_dir_sorted, App::new / enter / leave /            *)
(* update_right, and the key handling of run_app, over a fixed file tree   *)
(* that holds directories and files, hidden names, a symbolic link, an     *)
(* empty directory and directories without read or search permission.      *)
(* The file tree does not change during a run.                             *)
(***************************************************************************)
EXTENDS Integers, Sequences, FiniteSets, TLC

VARIABLES
    cwd,              \* the process working directory (env::current_dir)
    left,             \* App.left   : StatefulList, the parent pane
    center,           \* App.center : StatefulList, the current pane
    right,            \* App.right  : StatefulList, the preview pane
    mode,             \* App.mode   : "Normal" | "Find"
    show_hidden,      \* App.show_hidden, fixed at startup
    overflow_checks,  \* build profile: TRUE = usize arithmetic panics on overflow
    status,           \* "running" | "aborted" | "committed" | "panicked"
    seldir,           \* content of the hand-off file /tmp/seldir (a path)
    start_dir,        \* the working directory main() started in
    key,              \* the key event run_app handled last
    arm               \* the match arm of run_app that handled it

vars == <<cwd, left, center, right, mode, show_hidden, overflow_checks,
          status, seldir, start_dir, key, arm>>

-----------------------------------------------------------------------------
(* Option<T>: None is the empty tuple, Some(v) the one-element tuple.      *)

None == << >>
Some(v) == <<v>>
is_some(o) == o # None
unwrap_or(o, d) == IF o = None THEN d ELSE o[1]

-----------------------------------------------------------------------------
(* The file tree.  A path is the index of its node; a name is the tuple of *)
(* its bytes (46 '.', 66 'B', 90 'Z', 97 'a', ...).  r / x are the read    *)
(* and search permission of a directory for the running user.              *)

Root == 1

FS == <<
  [parent |-> 0,  name |-> << >>,             kind |-> "dir",     r |-> TRUE,  x |-> TRUE ],  \*  1 /
  [parent |-> 1,  name |-> <<66>>,            kind |-> "dir",     r |-> TRUE,  x |-> TRUE ],  \*  2 /B
  [parent |-> 1,  name |-> <<97>>,            kind |-> "dir",     r |-> TRUE,  x |-> TRUE ],  \*  3 /a
  [parent |-> 1,  name |-> <<46, 104>>,       kind |-> "dir",     r |-> TRUE,  x |-> TRUE ],  \*  4 /.h
  [parent |-> 1,  name |-> <<98, 46, 116>>,   kind |-> "file",    r |-> TRUE,  x |-> FALSE],  \*  5 /b.t
  [parent |-> 1,  name |-> <<108, 110>>,      kind |-> "symlink", r |-> TRUE,  x |-> TRUE ],  \*  6 /ln
  [parent |-> 1,  name |-> <<90>>,            kind |-> "file",    r |-> TRUE,  x |-> FALSE],  \*  7 /Z
  [parent |-> 2,  name |-> <<100>>,           kind |-> "dir",     r |-> TRUE,  x |-> TRUE ],  \*  8 /B/d
  [parent |-> 2,  name |-> <<120>>,           kind |-> "file",    r |-> TRUE,  x |-> FALSE],  \*  9 /B/x
  [parent |-> 8,  name |-> <<121>>,           kind |-> "file",    r |-> TRUE,  x |-> FALSE],  \* 10 /B/d/y
  [parent |-> 8,  name |-> <<46, 117>>,       kind |-> "dir",     r |-> TRUE,  x |-> TRUE ],  \* 11 /B/d/.u
  [parent |-> 3,  name |-> <<101>>,           kind |-> "dir",     r |-> TRUE,  x |-> TRUE ],  \* 12 /a/e  (empty)
  [parent |-> 3,  name |-> <<112>>,           kind |-> "dir",     r |-> FALSE, x |-> TRUE ],  \* 13 /a/p  (no read)
  [parent |-> 13, name |-> <<105>>,           kind |-> "file",    r |-> TRUE,  x |-> FALSE],  \* 14 /a/p/i
  [parent |-> 3,  name |-> <<118>>,           kind |-> "dir",     r |-> TRUE,  x |-> FALSE],  \* 15 /a/v  (no search, empty)
  [parent |-> 3,  name |-> <<119>>,           kind |-> "dir",     r |-> TRUE,  x |-> FALSE],  \* 16 /a/w  (no search)
  [parent |-> 16, name |-> <<106>>,           kind |-> "file",    r |-> TRUE,  x |-> FALSE],  \* 17 /a/w/j
  [parent |-> 3,  name |-> <<102>>,           kind |-> "file",    r |-> TRUE,  x |-> FALSE],  \* 18 /a/f
  [parent |-> 3,  name |-> <<103>>,           kind |-> "file",    r |-> TRUE,  x |-> FALSE],  \* 19 /a/g
  [parent |-> 3,  name |-> <<46, 115>>,       kind |-> "file",    r |-> TRUE,  x |-> FALSE],  \* 20 /a/.s
  [parent |-> 4,  name |-> <<99>>,            kind |-> "dir",     r |-> TRUE,  x |-> TRUE ],  \* 21 /.h/c
  [parent |-> 21, name |-> <<107>>,           kind |-> "dir",     r |-> TRUE,  x |-> TRUE ],  \* 22 /.h/c/k (empty)
  [parent |-> 21, name |-> <<109>>,           kind |-> "file",    r |-> TRUE,  x |-> FALSE],  \* 23 /.h/c/m
  [parent |-> 21, name |-> <<109, 109>>,      kind |-> "file",    r |-> TRUE,  x |-> FALSE]   \* 24 /.h/c/mm
>>

Paths == 1..Len(FS)

\* Path::parent(): None for the root.
parent(p) == IF p = Root THEN None ELSE Some(FS[p].parent)

\* Path::file_name()
file_name(p) == FS[p].name

\* Path resolution needs search permission on every directory above p.
RECURSIVE Searchable(_)
Searchable(p) ==
    \/ p = Root
    \/ /\ FS[FS[p].parent].kind = "dir"
       /\ FS[FS[p].parent].x
       /\ Searchable(FS[p].parent)

\* fs::symlink_metadata(p) is Ok
symlink_metadata_ok(p) == Searchable(p)

\* Path::is_dir(): the metadata can be read and names a directory.
is_dir(p) == Searchable(p) /\ FS[p].kind = "dir"

is_symlink(p) == FS[p].kind = "symlink"

\* fs::read_dir(p) is Ok
read_dir_ok(p) == is_dir(p) /\ FS[p].r

\* env::set_current_dir(p) is Ok
set_current_dir_ok(p) == is_dir(p) /\ FS[p].x

\* The entries fs::read_dir(p) yields, in directory order.
RECURSIVE EntriesFrom(_, _)
EntriesFrom(p, i) ==
    IF i > Len(FS) THEN << >>
    ELSE IF i # Root /\ FS[i].parent = p THEN <<i>> \o EntriesFrom(p, i + 1)
    ELSE EntriesFrom(p, i + 1)

read_dir(p) == EntriesFrom(p, 1)

-----------------------------------------------------------------------------
(* read_dir_sorted                                                         *)

\* str::cmp on the bytes of two names
RECURSIVE str_cmp(_, _)
str_cmp(a, b) ==
    IF a = << >> /\ b = << >> THEN "Equal"
    ELSE IF a = << >> THEN "Less"
    ELSE IF b = << >> THEN "Greater"
    ELSE IF Head(a) < Head(b) THEN "Less"
    ELSE IF Head(a) > Head(b) THEN "Greater"
    ELSE str_cmp(Tail(a), Tail(b))

\* the closure as it would be without the directories-first arms
sort_cmp_by_name(a, b) == str_cmp(file_name(a), file_name(b))

\* the closure given to sort_by
sort_cmp(a, b) ==
    IF is_dir(a) /\ is_dir(b) THEN str_cmp(file_name(a), file_name(b))
    ELSE IF is_dir(a) /\ ~is_dir(b) THEN "Less"
    ELSE IF ~is_dir(a) /\ is_dir(b) THEN "Greater"
    ELSE str_cmp(file_name(a), file_name(b))

\* slice::sort_by is a stable sort: e goes behind every element not greater.
RECURSIVE sort_insert(_, _)
sort_insert(s, e) ==
    IF s = << >> THEN <<e>>
    ELSE IF sort_cmp(Head(s), e) = "Greater" THEN <<e>> \o s
    ELSE <<Head(s)>> \o sort_insert(Tail(s), e)

RECURSIVE sort_by(_)
sort_by(s) ==
    IF s = << >> THEN << >>
    ELSE sort_insert(sort_by(SubSeq(s, 1, Len(s) - 1)), s[Len(s)])

starts_with(s, c) == s # << >> /\ Head(s) = c

\* the closure given to filter
filter_keep(e, hidden) ==
    /\ ~is_symlink(e)
    /\ (hidden \/ ~starts_with(file_name(e), 46))

\* [panicked, items]: panicked when symlink_metadata().unwrap() fails on an entry.
read_dir_sorted(path, hidden) ==
    IF ~read_dir_ok(path) THEN [panicked |-> FALSE, items |-> << >>]
    ELSE IF \E i \in 1..Len(read_dir(path)) : ~symlink_metadata_ok(read_dir(path)[i])
         THEN [panicked |-> TRUE, items |-> << >>]
    ELSE [panicked |-> FALSE,
          items |-> sort_by(SelectSeq(read_dir(path), LAMBDA e : filter_keep(e, hidden)))]

\* The file tree being fixed, every listing is computed once and looked up.
Listings == [p \in Paths |-> [h \in BOOLEAN |-> read_dir_sorted(p, h)]]

list_dir(path, hidden) == Listings[path][hidden]

-----------------------------------------------------------------------------
(* StatefulList                                                            *)

\* usize::MAX.  The model takes the largest integer TLC represents;
\* only 0 - 1 = UsizeMax and UsizeMax > every list length are used.
UsizeMax == 2147483647

\* usize subtraction: panics with overflow checks, wraps without.
usize_sub(a, b) ==
    IF a >= b THEN [panicked |-> FALSE, v |-> a - b]
    ELSE IF overflow_checks THEN [panicked |-> TRUE, v |-> 0]
    ELSE [panicked |-> FALSE, v |-> (UsizeMax - (b - a)) + 1]

with_items(items, sel) == [items |-> items, state |-> sel]

\* Vec::get
get(items, idx) == IF idx < Len(items) THEN Some(items[idx + 1]) ELSE None

selected(l) == IF is_some(l.state) THEN get(l.items, l.state[1]) ELSE None

\* Iterator::position, hits[i] being the predicate's value on the i-th item:
\* the index (from 0) of the first item the predicate holds of
RECURSIVE position_from(_, _)
position_from(hits, i) ==
    IF i > Len(hits) THEN None
    ELSE IF hits[i] THEN Some(i - 1)
    ELSE position_from(hits, i + 1)

position(hits) == position_from(hits, 1)

\* next as it would be if an absent cursor selected the first entry
next_from_none(l) ==
    LET m == usize_sub(Len(l.items), 1)
    IN  IF m.panicked THEN [panicked |-> TRUE, list |-> l]
        ELSE IF l.state = None THEN [panicked |-> FALSE, list |-> [l EXCEPT !.state = Some(0)]]
        ELSE IF l.state[1] < m.v
             THEN [panicked |-> FALSE, list |-> [l EXCEPT !.state = Some(l.state[1] + 1)]]
        ELSE [panicked |-> FALSE, list |-> l]

\* each of the cursor operations yields [panicked, list]
next(l) ==
    LET i == unwrap_or(l.state, 0)
        m == usize_sub(Len(l.items), 1)
    IN  IF m.panicked THEN [panicked |-> TRUE, list |-> l]
        ELSE IF i < m.v THEN [panicked |-> FALSE, list |-> [l EXCEPT !.state = Some(i + 1)]]
        ELSE [panicked |-> FALSE, list |-> l]

previous(l) ==
    LET i == unwrap_or(l.state, 0)
    IN  IF i > 0 THEN [panicked |-> FALSE, list |-> [l EXCEPT !.state = Some(i - 1)]]
        ELSE [panicked |-> FALSE, list |-> l]

first(l) == [panicked |-> FALSE, list |-> [l EXCEPT !.state = Some(0)]]

\* last as it would be if it stepped len - 1 entries on from the cursor
last_from_cursor(l) ==
    LET m == usize_sub(Len(l.items), 1)
    IN  IF m.panicked THEN [panicked |-> TRUE, list |-> l]
        ELSE LET i == unwrap_or(l.state, 0)
                 j == IF i > UsizeMax - m.v THEN i - (UsizeMax - m.v) - 1 ELSE i + m.v
             IN  [panicked |-> FALSE, list |-> [l EXCEPT !.state = Some(j)]]

last(l) ==
    LET m == usize_sub(Len(l.items), 1)
    IN  IF m.panicked THEN [panicked |-> TRUE, list |-> l]
        ELSE [panicked |-> FALSE, list |-> [l EXCEPT !.state = Some(m.v)]]

-----------------------------------------------------------------------------
(* App.  The operations work on a record a of the App fields, the working  *)
(* directory and a flag telling that an unwrap() or an overflow check      *)
(* panicked; the fields hold what had been assigned when it did.           *)

App == [cwd |-> cwd, left |-> left, center |-> center, right |-> right,
        mode |-> mode, panicked |-> FALSE]

\* PathBuf::join: an absolute argument replaces the base; DirEntry::path()
\* of a listing of an absolute directory is absolute.
join(base, p) == p

\* mutant of left_selected: the cursor is put on the first entry
left_selected_first(items, path) == IF items = << >> THEN None ELSE Some(0)

\* left.iter().position(|x| x.path().eq(path)): the parent pane's cursor
left_selected(items, path) == position([i \in 1..Len(items) |-> items[i] = path])

\* mutant of center_selcted: the cursor goes back to the first entry
center_selcted_first(items, leaving) == IF items = << >> THEN None ELSE Some(0)

\* center.iter().position(|x| x.path().eq(leaving)): the cursor after a leave
center_selcted(items, leaving) == position([i \in 1..Len(items) |-> items[i] = leaving])

\* mutant of enter_center: the current pane is listed from the parent
enter_center_parent(path) == list_dir(parent(path)[1], show_hidden)

\* the listings App::enter takes for the parent pane and the current pane
enter_left(path) == list_dir(parent(path)[1], show_hidden)
enter_center(path) == list_dir(path, show_hidden)

\* the listings App::leave takes, path being the parent of the directory left
leave_left(path) ==
    IF is_some(parent(path)) THEN list_dir(parent(path)[1], show_hidden)
    ELSE [panicked |-> FALSE, items |-> << >>]
leave_center(path) == list_dir(path, show_hidden)

\* the listing App::update_right takes for the entry sel selected in cur
preview_of(cur, sel) == list_dir(join(cur, sel), show_hidden)

\* App::new, from the working directory cur
new(cur, hidden) ==
    LET l == IF is_some(parent(cur)) THEN list_dir(parent(cur)[1], hidden)
             ELSE [panicked |-> FALSE, items |-> << >>]
        c == list_dir(cur, hidden)
        r == IF c.items # << >> THEN list_dir(join(cur, Head(c.items)), hidden)
             ELSE [panicked |-> FALSE, items |-> << >>]
    IN  [cwd      |-> cur,
         left     |-> with_items(l.items, left_selected(l.items, cur)),
         center   |-> with_items(c.items, Some(0)),
         right    |-> with_items(r.items, None),
         mode     |-> "Normal",
         panicked |-> l.panicked \/ c.panicked \/ r.panicked]

\* App::enter
enter(a, path) ==
    IF a.panicked THEN a
    ELSE IF ~set_current_dir_ok(path) THEN [a EXCEPT !.panicked = TRUE]
    ELSE IF parent(path) = None THEN [a EXCEPT !.cwd = path, !.panicked = TRUE]
    ELSE
      LET l == enter_left(path)
          c == enter_center(path)
      IN  IF l.panicked \/ c.panicked THEN [a EXCEPT !.cwd = path, !.panicked = TRUE]
          ELSE [a EXCEPT !.cwd = path,
                         !.left = with_items(l.items, left_selected(l.items, path)),
                         !.center = with_items(c.items, Some(0))]

\* App::leave
leave(a) ==
    IF a.panicked THEN a
    ELSE
      LET leaving == a.cwd
      IN  IF parent(leaving) = None THEN a
          ELSE
            LET path == parent(leaving)[1]
                l == leave_left(path)
                c == leave_center(path)
            IN  IF ~set_current_dir_ok(path) THEN [a EXCEPT !.panicked = TRUE]
                ELSE IF l.panicked \/ c.panicked THEN [a EXCEPT !.cwd = path, !.panicked = TRUE]
                ELSE [a EXCEPT !.cwd = path,
                               !.left = with_items(l.items, left_selected(l.items, path)),
                               !.center = with_items(c.items, center_selcted(c.items, leaving))]

\* update_right as it would be if it listed the selection by moving into it
update_right_chdir(a) ==
    IF a.panicked THEN a
    ELSE IF selected(a.center) = None THEN a
    ELSE
      LET r == preview_of(a.cwd, selected(a.center)[1])
      IN  IF r.panicked THEN [a EXCEPT !.panicked = TRUE]
          ELSE [a EXCEPT !.right = with_items(r.items, None),
                         !.cwd = IF set_current_dir_ok(selected(a.center)[1])
                                 THEN selected(a.center)[1] ELSE a.cwd]

\* App::update_right
update_right(a) ==
    IF a.panicked THEN a
    ELSE IF selected(a.center) = None THEN a
    ELSE
      LET r == preview_of(a.cwd, selected(a.center)[1])
      IN  IF r.panicked THEN [a EXCEPT !.panicked = TRUE]
          ELSE [a EXCEPT !.right = with_items(r.items, None)]

\* app.center.next() / previous() / first() / last() inside a key handler
center_op(a, r) ==
    IF r.panicked THEN [a EXCEPT !.panicked = TRUE] ELSE [a EXCEPT !.center = r.list]

center_next(a) == IF a.panicked THEN a ELSE center_op(a, next(a.center))
center_previous(a) == IF a.panicked THEN a ELSE center_op(a, previous(a.center))
center_first(a) == IF a.panicked THEN a ELSE center_op(a, first(a.center))
center_last(a) == IF a.panicked THEN a ELSE center_op(a, last(a.center))

set_mode(a, m) == IF a.panicked THEN a ELSE [a EXCEPT !.mode = m]

-----------------------------------------------------------------------------
(* run_app: the key events and their handlers                              *)

Key(code) == [code |-> code, c |-> 0]
Char(c) == [code |-> "Char", c |-> c]

\* the characters pressed: j J k K g G h l f q and a b B z .
Chars == {106, 74, 107, 75, 103, 71, 104, 108, 102, 113, 97, 98, 66, 122, 46}

Keys == {Key(k) : k \in {"Esc", "Down", "Up", "Left", "Right", "Enter", "Tab"}}
        \cup {Char(c) : c \in Chars}

\* On an empty list a build without overflow checks lets the cursor run over
\* all of usize; the model follows it CursorCap steps from either end.
CursorCap == 6

InCap(l) ==
    IF l.state = None THEN TRUE
    ELSE IF l.state[1] <= Len(l.items) + CursorCap THEN TRUE
    ELSE l.state[1] >= UsizeMax - CursorCap

\* the state a handler leaves behind
Handled(h, k, a) ==
    /\ InCap(a.center)
    /\ arm' = h
    /\ key' = k
    /\ cwd' = a.cwd
    /\ left' = a.left
    /\ center' = a.center
    /\ right' = a.right
    /\ mode' = a.mode
    /\ status' = IF a.panicked THEN "panicked" ELSE "running"
    /\ UNCHANGED <<show_hidden, overflow_checks, seldir, start_dir>>

Normal == status = "running" /\ mode = "Normal"
Find == status = "running" /\ mode = "Find"

\* mutant of KeyEsc: the abort writes the working directory to the file
KeyEscWrites ==
    /\ Normal
    /\ arm' = "Esc"
    /\ key' = Key("Esc")
    /\ status' = "aborted"
    /\ seldir' = cwd
    /\ UNCHANGED <<cwd, left, center, right, mode, show_hidden, overflow_checks,
                   start_dir>>

\* KeyCode::Esc => return Ok(())
KeyEsc ==
    /\ Normal
    /\ arm' = "Esc"
    /\ key' = Key("Esc")
    /\ status' = "aborted"
    /\ UNCHANGED <<cwd, left, center, right, mode, show_hidden, overflow_checks,
                   seldir, start_dir>>

\* KeyCode::Down | KeyCode::Char('j')
move_down(a) == update_right(center_next(a))

KeyDown ==
    /\ Normal
    /\ \E k \in {Key("Down"), Char(106)} : Handled("Down", k, move_down(App))

\* the 'J' arm as it would be with four repetitions
move_down4(a) ==
    update_right(center_next(center_next(center_next(center_next(a)))))

\* KeyCode::Char('J')
move_down5(a) ==
    update_right(center_next(center_next(center_next(center_next(center_next(a))))))

KeyShiftJ ==
    /\ Normal
    /\ Handled("J", Char(74), move_down5(App))

\* KeyCode::Up | KeyCode::Char('k')
move_up(a) == update_right(center_previous(a))

KeyUp ==
    /\ Normal
    /\ \E k \in {Key("Up"), Char(107)} : Handled("Up", k, move_up(App))

\* KeyCode::Char('K')
move_up5(a) ==
    update_right(center_previous(center_previous(center_previous(
        center_previous(center_previous(a))))))

KeyShiftK ==
    /\ Normal
    /\ Handled("K", Char(75), move_up5(App))

\* the 'g' arm as it would be if it refreshed the preview
jump_first_refresh(a) == update_right(center_first(a))

\* KeyCode::Char('g')
jump_first(a) == center_first(a)

KeyFirst ==
    /\ Normal
    /\ Handled("g", Char(103), jump_first(App))

\* KeyCode::Char('G')
jump_last(a) == center_last(a)

KeyLast ==
    /\ Normal
    /\ Handled("G", Char(71), jump_last(App))

\* the Left arm as it would be if a press were handled twice
leave_key_twice(a) == update_right(leave(leave(a)))

\* KeyCode::Left | KeyCode::Char('h')
leave_key(a) == update_right(leave(a))

KeyLeft ==
    /\ Normal
    /\ \E k \in {Key("Left"), Char(104)} : Handled("Left", k, leave_key(App))

\* KeyCode::Right | KeyCode::Char('l')
enter_selected(a) ==
    IF is_some(selected(a.center)) /\ is_dir(selected(a.center)[1])
    THEN update_right(enter(a, selected(a.center)[1]))
    ELSE a

KeyRight ==
    /\ Normal
    /\ \E k \in {Key("Right"), Char(108)} : Handled("Right", k, enter_selected(App))

\* KeyCode::Char('f')
KeyFind ==
    /\ Normal
    /\ Handled("f", Char(102), set_mode(App, "Find"))

\* mutant of commit_selection: a selected file is committed too
commit_any(a) == selected(a.center)

\* KeyCode::Char('q') | KeyCode::Enter: Some(path) ends the session
commit_selection(a) ==
    IF is_some(selected(a.center)) /\ is_dir(selected(a.center)[1])
    THEN selected(a.center)
    ELSE None

KeyCommit ==
    /\ Normal
    /\ \E k \in {Char(113), Key("Enter")} :
         /\ arm' = "Commit"
         /\ key' = k
         /\ IF is_some(commit_selection(App))
            THEN /\ seldir' = commit_selection(App)[1]
                 /\ status' = "committed"
            ELSE UNCHANGED <<seldir, status>>
         /\ UNCHANGED <<cwd, left, center, right, mode, show_hidden, overflow_checks,
                        start_dir>>

\* _ => {}
NormalKeys ==
    {Key(k) : k \in {"Esc", "Down", "Up", "Left", "Right", "Enter"}}
    \cup {Char(c) : c \in {106, 74, 107, 75, 103, 71, 104, 108, 102, 113}}

KeyOther ==
    /\ Normal
    /\ \E k \in Keys \ NormalKeys : Handled("Other", k, App)

\* str::to_lowercase on the bytes of a name
RECURSIVE to_lowercase(_)
to_lowercase(s) ==
    IF s = << >> THEN << >>
    ELSE <<IF Head(s) >= 65 /\ Head(s) <= 90 THEN Head(s) + 32 ELSE Head(s)>>
         \o to_lowercase(Tail(s))

\* Find mode, KeyCode::Char(c)
\* mutant of find_matches: the name is compared without case folding
find_matches_exact(e, c) == starts_with(file_name(e), c)

\* the closure given to position: the name, lowercased, starts with c
find_matches(e, c) == starts_with(to_lowercase(file_name(e)), c)

\* find_char as it would be if only a match ended Find mode
find_char_sticky(a, c) ==
    LET idx == position([i \in 1..Len(a.center.items) |->
                            find_matches(a.center.items[i], c)])
    IN  IF is_some(idx)
        THEN set_mode(update_right([a EXCEPT !.center.state = idx]), "Normal")
        ELSE update_right(a)

find_char(a, c) ==
    LET idx == position([i \in 1..Len(a.center.items) |->
                            find_matches(a.center.items[i], c)])
        found == IF is_some(idx) THEN [a EXCEPT !.center.state = idx] ELSE a
    IN  set_mode(update_right(found), "Normal")

FindChar ==
    /\ Find
    /\ \E c \in Chars : Handled("FindChar", Char(c), find_char(App, c))

\* Find mode, any other key
FindOther ==
    /\ Find
    /\ \E k \in Keys : k.code # "Char" /\ Handled("FindOther", k, set_mode(App, "Normal"))

-----------------------------------------------------------------------------

\* the directories a process can have as its working directory
StartDirs == {p \in Paths : set_current_dir_ok(p)}

Init ==
    /\ start_dir \in StartDirs
    /\ show_hidden \in BOOLEAN
    /\ overflow_checks \in BOOLEAN
    /\ seldir = start_dir
    /\ LET a == new(start_dir, show_hidden)
       IN  /\ cwd = a.cwd
           /\ left = a.left
           /\ center = a.center
           /\ right = a.right
           /\ mode = a.mode
           /\ status = IF a.panicked THEN "panicked" ELSE "running"
    /\ key = Key("None")
    /\ arm = "new"

Next ==
    \/ KeyEsc
    \/ KeyDown
    \/ KeyShiftJ
    \/ KeyUp
    \/ KeyShiftK
    \/ KeyFirst
    \/ KeyLast
    \/ KeyLeft
    \/ KeyRight
    \/ KeyFind
    \/ KeyCommit
    \/ KeyOther
    \/ FindChar
    \/ FindOther

Spec == Init /\ [][Next]_vars

-----------------------------------------------------------------------------
(* Properties                                                              *)

Running == status = "running"
Panes == {left, center, right}

DownKeys == {Key("Down"), Char(106)}
LeftKeys == {Key("Left"), Char(104)}
RightKeys == {Key("Right"), Char(108)}
CommitKeys == {Char(113), Key("Enter")}

\* path is an entry of items
Listed(items, path) == \E i \in 1..Len(items) : items[i] = path

\* C1: in every reachable state each pane's cursor, when present, is an
\* index with 0 <= cursor < length of the pane's sequence, so that the
\* cursor of an empty sequence is absent.  (The claim's converse, a
\* non-empty sequence always has a cursor, is C1_CursorPresent.)
C1_CursorInBounds ==
    \A l \in Panes :
        /\ is_some(l.state) => (0 <= l.state[1] /\ l.state[1] < Len(l.items))
        /\ (l.items = << >>) => (l.state = None)

\* the other half of C1's "if and only if": a non-empty sequence has a cursor
C1_CursorPresent ==
    \A l \in Panes : (l.items # << >>) => is_some(l.state)

\* C2: in every reachable state of a running session the preview pane's
\* sequence is the listing of the entry selected in the current pane (empty
\* for a file or an unreadable directory), and is empty when nothing is
\* selected.
C2_PreviewInSync ==
    Running =>
        right.items = IF selected(center) = None THEN << >>
                      ELSE list_dir(selected(center)[1], show_hidden).items

\* C3 as stated: whenever the parent pane's sequence is non-empty its cursor
\* is present and points at the entry whose path is the working directory.
C3_ParentCursorOnCwd ==
    left.items # << >> => selected(left) = Some(cwd)

\* C3 as amended: whenever the parent pane's sequence holds the entry whose
\* path is the working directory, the cursor is present and points at it;
\* when it does not hold that entry the cursor is absent.
C3_ParentCursorOnCwdWhenListed ==
    IF Listed(left.items, cwd) THEN selected(left) = Some(cwd)
    ELSE left.state = None

\* C3 witness: an enter has put the parent cursor on an entry that is not
\* the first of a parent listing.
C3_Witness ==
    /\ Running
    /\ arm = "Right"
    /\ Len(left.items) > 1
    /\ selected(left) = Some(cwd)
    /\ left.state # Some(0)

\* C4: in every reachable state the current pane's sequence is the listing
\* of the working directory and the parent pane's sequence is the listing of
\* its parent, empty at the root.
C4_PanesListCwd ==
    /\ center.items = list_dir(cwd, show_hidden).items
    /\ left.items = IF parent(cwd) = None THEN << >>
                    ELSE list_dir(parent(cwd)[1], show_hidden).items

\* C4 witness: after an enter and after a leave, below the root, with both
\* panes holding entries.
C4_Witness ==
    /\ Running
    /\ arm = "Left"
    /\ cwd # Root
    /\ cwd # start_dir
    /\ center.items # << >>
    /\ left.items # << >>

\* C5: a step that enters the directory d selected in the current pane,
\* followed at once by leave, brings the working directory back to what it
\* was before the enter, and the current pane lists that directory again
\* with its cursor on d.
C5_EnterLeaveRoundTrip ==
    [][(/\ Normal
        /\ arm' = "Right"
        /\ status' = "running"
        /\ is_some(selected(center))
        /\ is_dir(selected(center)[1]))
       => LET b == leave_key(App')
          IN  /\ ~b.panicked
              /\ cwd' = selected(center)[1]
              /\ b.cwd = cwd
              /\ b.center.items = list_dir(cwd, show_hidden).items
              /\ selected(b.center) = selected(center)]_vars

\* C5 witness: an enter (the selection is a directory after the enter key
\* only if the key entered one) from a directory in which the entered
\* directory is not the first entry, so that the leave has to put the
\* cursor back on it.
C5_Witness ==
    /\ Running
    /\ arm = "Right"
    /\ is_some(parent(cwd))
    /\ is_some(selected(center))
    /\ is_dir(selected(center)[1])
    /\ selected(leave_key(App).center) = Some(cwd)
    /\ leave_key(App).center.state # Some(0)

\* C6: no key press drives the navigator into a panic.
C6_NeverPanics == status # "panicked"

\* C7: at the root the leave key changes neither the working directory nor
\* the sequence or cursor of any pane.
C7_LeaveAtRootNoOp ==
    [][(Normal /\ cwd = Root /\ arm' = "Left")
       => (status' = "running" /\ UNCHANGED <<cwd, left, center, right>>)]_vars

\* the indices (from 1) of the entries a Find character matches
FindMatches(items, c) ==
    {i \in 1..Len(items) : starts_with(to_lowercase(file_name(items[i])), c)}

\* C8: a character c handled in Find mode puts the current-pane cursor on
\* the first entry, in display order, whose lowercased name starts with c
\* and lists the preview from that entry; without a match the cursor stays.
\* The mode is Normal afterwards.
C8_FindFirstMatch ==
    [][(Find /\ arm' = "FindChar" /\ status' = "running")
       => LET M == FindMatches(center.items, key'.c)
              m == CHOOSE i \in M : \A j \in M : i <= j
          IN  /\ mode' = "Normal"
              /\ center'.items = center.items
              /\ IF M # {}
                 THEN /\ center'.state = Some(m - 1)
                      /\ right'.items =
                           list_dir(center.items[m], show_hidden).items
                 ELSE center'.state = center.state]_vars

\* C8 witness: Find has moved the cursor onto an entry with an upper-case
\* name that is not the first of the pane.
C8_Witness ==
    /\ Running
    /\ arm = "FindChar"
    /\ mode = "Normal"
    /\ is_some(selected(center))
    /\ center.state # Some(0)
    /\ file_name(selected(center)[1]) # to_lowercase(file_name(selected(center)[1]))
    /\ starts_with(to_lowercase(file_name(selected(center)[1])), key.c)

\* C9: the commit key ends the session exactly when the current pane's
\* selection is a directory, and then hands off that selection's path;
\* otherwise nothing changes and the session stays in Normal mode.
C9_CommitOnlyDirectory ==
    [][(Normal /\ arm' = "Commit")
       => IF is_some(selected(center)) /\ FS[selected(center)[1]].kind = "dir"
          THEN /\ status' = "committed"
               /\ seldir' = selected(center)[1]
          ELSE /\ status' = "running"
               /\ mode' = "Normal"
               /\ UNCHANGED <<cwd, left, center, right, seldir>>]_vars

\* C9 witness: a commit on a directory has ended the session.
C9_Witness ==
    /\ arm = "Commit"
    /\ status = "committed"
    /\ selected(center) = Some(seldir)

\* C10: the hand-off file holds the startup working directory until a
\* commit; after an abort it still does, and after a commit it holds the
\* path of the directory selected in the current pane, a direct child of
\* the working directory.
C10_HandOff ==
    /\ status # "committed" => seldir = start_dir
    /\ status = "committed" =>
         /\ selected(center) = Some(seldir)
         /\ FS[seldir].kind = "dir"
         /\ parent(seldir) = Some(cwd)

\* C10 witness: an abort after the navigation has left the startup directory.
C10_Witness ==
    /\ status = "aborted"
    /\ cwd # start_dir
    /\ seldir = start_dir

\* the keys of the arms that move the cursor and refresh the preview
MoveArms == {"Down", "J", "Up", "K"}

\* C11: the working directory changes only through enter_selected on a
\* selected directory (to that directory) and through leave at a non-root
\* directory (to its parent); every other key press, and every key handled
\* in Find mode, leaves it unchanged.
C11_CwdChangesOnlyByEnterLeave ==
    [][cwd' # cwd =>
         \/ /\ Normal
            /\ arm' = "Right"
            /\ key' \in RightKeys
            /\ is_some(selected(center))
            /\ FS[unwrap_or(selected(center), Root)].kind = "dir"
            /\ cwd' = unwrap_or(selected(center), Root)
         \/ /\ Normal
            /\ arm' = "Left"
            /\ key' \in LeftKeys
            /\ cwd # Root
            /\ Some(cwd') = parent(cwd)]_vars

\* C11 witness: a leave has moved the session from the startup directory to
\* its parent.
C11_Witness ==
    /\ Running
    /\ arm = "Left"
    /\ parent(start_dir) = Some(cwd)

\* byte-wise lexicographic order on names, strict
LexLess(a, b) ==
    \E k \in 1..(Len(b)) :
        /\ \A m \in 1..(k - 1) : m <= Len(a) /\ a[m] = b[m]
        /\ (k > Len(a) \/ (k <= Len(a) /\ a[k] < b[k]))

\* the children of d the listing is to hold
Children(d, hidden) ==
    IF FS[d].kind = "dir" /\ FS[d].r /\ Searchable(d)
    THEN {e \in Paths \ {Root} :
            /\ FS[e].parent = d
            /\ FS[e].kind # "symlink"
            /\ (hidden \/ FS[e].name[1] # 46)}
    ELSE {}

\* the listing of d under flag h is the one C12 describes
ListedAsSpecified(d, h) ==
    LET r == list_dir(d, h)
        n == Len(r.items)
    IN  ~r.panicked =>
          /\ {r.items[i] : i \in 1..n} = Children(d, h)
          /\ n = Cardinality(Children(d, h))
          /\ \A i \in 1..n : \A j \in (i + 1)..n :
                \/ FS[r.items[i]].kind = "dir" /\ FS[r.items[j]].kind # "dir"
                \/ /\ (FS[r.items[i]].kind = "dir") = (FS[r.items[j]].kind = "dir")
                   /\ LexLess(FS[r.items[i]].name, FS[r.items[j]].name)

\* The file tree being fixed, the comparison is made once for each listing.
ListingChecks == [d \in Paths |-> [h \in BOOLEAN |-> ListedAsSpecified(d, h)]]

\* C12: for every directory D and show-hidden flag the listing that
\* read_dir_sorted returns holds exactly the direct children of D that are
\* not symbolic links and (unless hidden entries are shown) whose names do
\* not begin with '.', each once, directories before files and in
\* lexicographic order of the names within each kind; it is empty when D
\* cannot be read.
C12_ListingSorted ==
    \A d \in Paths : \A h \in {show_hidden, ~show_hidden} : ListingChecks[d][h]

\* C12 witness: the current pane lists a directory that holds a hidden
\* entry and a symbolic link, both left out, two directories and two files.
C12_Witness ==
    /\ Running
    /\ center.items = list_dir(cwd, show_hidden).items
    /\ \E e \in Paths \ {Root} :
          FS[e].parent = cwd /\ FS[e].name[1] = 46 /\ ~Listed(center.items, e)
    /\ \E e \in Paths \ {Root} :
          FS[e].parent = cwd /\ FS[e].kind = "symlink" /\ ~Listed(center.items, e)
    /\ \E i, j \in 1..Len(center.items) :
          i < j /\ FS[center.items[i]].kind = "dir" /\ FS[center.items[j]].kind = "dir"
    /\ \E i, j \in 1..Len(center.items) :
          i < j /\ FS[center.items[i]].kind = "file" /\ FS[center.items[j]].kind = "file"

\* C13: jump_last is idempotent on every list, whatever its length and
\* prior cursor: a second call yields the cursor and sequence the first
\* call yielded, for each pane's list and for the 'G' key on the session.
C13_LastIdempotent ==
    Running =>
        /\ \A l \in Panes :
              ~last(l).panicked => last(last(l).list) = last(l)
        /\ ~jump_last(App).panicked => jump_last(jump_last(App)) = jump_last(App)

\* C13 witness: 'G' has put the cursor of a list of several entries on the
\* last one.
C13_Witness ==
    /\ Running
    /\ arm = "G"
    /\ Len(center.items) >= 3
    /\ center.state = Some(Len(center.items) - 1)

\* C14: Find mode is single-shot.  The mode becomes Find only by the find
\* key in Normal mode; every key handled in Find mode, character or not,
\* ends with the mode Normal; and a key handled in Find mode does not
\* abort, commit, write the hand-off file, or change the working
\* directory, the parent pane or the current pane's sequence.
C14_FindSingleShot ==
    [][/\ (status' = "running" /\ mode' = "Find") =>
            (Normal /\ arm' = "f" /\ key' = Char(102))
       /\ (Find /\ status' = "running") => mode' = "Normal"
       /\ Find =>
            /\ status' \notin {"aborted", "committed"}
            /\ seldir' = seldir
            /\ cwd' = cwd
            /\ left' = left
            /\ center'.items = center.items]_vars

\* C14 witness: Esc pressed in Find mode has ended Find mode and not the
\* session.
C14_Witness ==
    /\ Running
    /\ mode = "Normal"
    /\ arm = "FindOther"
    /\ key = Key("Esc")

\* C15: advance and retreat on an empty sequence are no-ops: the down, up
\* and five-step keys pressed while the current pane is empty leave the
\* sequence empty and the cursor as it was, and raise no error.
C15_MoveOnEmptyNoOp ==
    [][(Normal /\ center.items = << >> /\ arm' \in MoveArms) =>
         (status' = "running" /\ center' = center)]_vars

\* the signed distance of each cursor-moving arm
Delta(a) ==
    IF a = "Down" THEN 1 ELSE IF a = "J" THEN 5 ELSE IF a = "Up" THEN 0 - 1 ELSE 0 - 5

Clamp(i, len) == IF i < 0 THEN 0 ELSE IF i > len - 1 THEN len - 1 ELSE i

\* C16: a cursor-moving key of distance delta in {+1, +5, -1, -5}, on a
\* non-empty current pane whose cursor is at index i, sets the cursor to
\* max(0, min(i + delta, length - 1)) without wrapping, changes no pane's
\* sequence other than the preview's, and leaves the preview listing the
\* children of the newly selected entry.
C16_MoveSelectionClamped ==
    [][(/\ Normal
        /\ arm' \in MoveArms
        /\ center.items # << >>
        /\ is_some(center.state)
        /\ status' = "running") =>
         LET j == Clamp(unwrap_or(center.state, 0) + Delta(arm'), Len(center.items))
         IN  /\ center' = with_items(center.items, Some(j))
             /\ left' = left
             /\ cwd' = cwd
             /\ mode' = "Normal"
             /\ right'.items = list_dir(center.items[j + 1], show_hidden).items]_vars

\* C16 witness: 'J' has moved the cursor five entries down, short of the
\* last entry.
C16_Witness ==
    /\ Running
    /\ arm = "J"
    /\ center.state = Some(5)
    /\ Len(center.items) > 6
    /\ right.items = list_dir(center.items[6], show_hidden).items

\* the arms that call update_right
RefreshArms == MoveArms \cup {"Left", "FindChar"}

\* C17: the refresh of the preview makes the preview empty whenever nothing
\* is selected in the current pane, whatever the preview held before: after
\* every completed handler that refreshes the preview (a cursor move, a
\* leave, an enter into a directory, a find), if the current pane has no
\* selection the preview's sequence is empty.
C17_RefreshEmptiesPreview ==
    [][(/\ status' = "running"
        /\ \/ arm' \in RefreshArms
           \/ arm' = "Right" /\ cwd' # cwd
        /\ selected(center') = None) =>
         right'.items = << >>]_vars

\* C18: jump_first and jump_last on a non-empty current pane set the
\* cursor to index 0 and to index length - 1, and change nothing else: the
\* current pane's sequence, the parent pane, the preview pane (which is not
\* refreshed), the working directory and the mode stay as they were.
C18_JumpMovesCursorOnly ==
    [][(Normal /\ center.items # << >> /\ arm' \in {"g", "G"}) =>
         /\ status' = "running"
         /\ center' = with_items(center.items,
                                 IF arm' = "g" THEN Some(0)
                                 ELSE Some(Len(center.items) - 1))
         /\ UNCHANGED <<left, right, cwd, mode, seldir>>]_vars

\* C18 witness: 'G' has moved the cursor from the first to the last entry
\* and the preview still lists the first entry, not the last.
C18_Witness ==
    /\ Running
    /\ arm = "G"
    /\ Len(center.items) >= 2
    /\ center.state = Some(Len(center.items) - 1)
    /\ right.items # << >>
    /\ right.items = list_dir(center.items[1], show_hidden).items
    /\ right.items # list_dir(center.items[Len(center.items)], show_hidden).items

\* C19: on a non-empty current pane whose cursor is absent, advance treats
\* the absent cursor as index 0: the down key selects index 1 when the pane
\* has at least two entries ('J' goes on to index min(5, length - 1)) and
\* leaves the cursor absent when it has exactly one; the up keys always
\* leave it absent.  So no down or up key selects index 0 from that state.
C19_AbsentCursorIsIndexZero ==
    [][(/\ Normal
        /\ arm' \in MoveArms
        /\ center.items # << >>
        /\ center.state = None
        /\ status' = "running") =>
         /\ center'.items = center.items
         /\ center'.state # Some(0)
         /\ arm' \in {"Up", "K"} => center'.state = None
         /\ (arm' \in {"Down", "J"} /\ Len(center.items) = 1) => center'.state = None
         /\ (arm' = "Down" /\ Len(center.items) >= 2) => center'.state = Some(1)
         /\ (arm' = "J" /\ Len(center.items) >= 2) =>
              center'.state = Some(Clamp(5, Len(center.items)))]_vars

\* C19 witness: the down key has been pressed on a one-entry current pane
\* without a cursor, and the cursor is still absent.
C19_Witness ==
    /\ Running
    /\ arm = "Down"
    /\ Len(center.items) = 1
    /\ center.state = None

\* the number of components of a path
RECURSIVE Depth(_)
Depth(p) == IF p = Root THEN 0 ELSE 1 + Depth(FS[p].parent)

\* the session after n presses of the leave key
RECURSIVE leave_times(_, _)
leave_times(a, n) == IF n = 0 THEN a ELSE leave_key(leave_times(a, n - 1))

\* C20: each leave at a non-root working directory replaces it by its
\* parent, one component shorter; from any Normal state, depth(cwd) presses
\* of the leave key reach the root, no fewer do, and every further press
\* keeps the working directory at the root.
C20_LeaveReachesRoot ==
    Normal =>
        /\ \A n \in 0..Depth(cwd) :
              /\ ~leave_times(App, n).panicked
              /\ Depth(leave_times(App, n).cwd) = Depth(cwd) - n
              /\ n > 0 => parent(leave_times(App, n - 1).cwd) = Some(leave_times(App, n).cwd)
        /\ leave_times(App, Depth(cwd)).cwd = Root
        /\ leave_times(App, Depth(cwd) + 1).cwd = Root
        /\ leave_times(App, Depth(cwd) + 2).cwd = Root

\* C20 witness: the leave key has brought a session started three
\* directories deep to the root.
C20_Witness ==
    /\ Normal
    /\ arm = "Left"
    /\ Depth(start_dir) = 3
    /\ cwd = Root

====
